---- MODULE Spec2Model ----
(***************************************************************************)
(* Customer Support Helper (henry-wk1): the POST /completions handler, the *)
(* query orchestrator processQuery, the input safety classifier, the query *)
(* sanitizer and the flat-file logging sink.                                *)
(*                                                                         *)
(* A string is a sequence of characters; a character is a one-character    *)
(* TLA+ string, or the name of a code unit that has no printable form      *)
(* ("TAB", "LF", "NUL", "BACKSLASH", ...).                                  *)
(***************************************************************************)
EXTENDS Integers, Sequences, FiniteSets, TLC

(***************************************************************************)
(* Characters and the string primitives of the JavaScript runtime          *)
(***************************************************************************)

\* String.prototype.trim removes WhiteSpace and LineTerminator code units.
WhiteSpace == {" ", "TAB", "LF", "VT", "FF", "CR", "NBSP"}

\* The regular-expression atom "." matches everything but a line terminator.
LineTerminators == {"LF", "CR"}

\* Members of the classes \x00-\x08, \x0B-\x0C, \x0E-\x1F and \x7F.
ControlChars == {"NUL", "BEL", "BS", "VT", "FF", "SO", "ESC", "US", "DEL"}

\* The class [<>{}[\]\\\/|`~!@#$%^&*+=] of the special-character count.
SpecialChars ==
    {"<", ">", "{", "}", "[", "]", "BACKSLASH", "/", "|", "BACKTICK", "~", "!", "@", "#",
     "$", "%", "^", "&", "*", "+", "="}

LowerOf ==
    ("A" :> "a") @@ ("B" :> "b") @@ ("C" :> "c") @@ ("D" :> "d") @@
    ("E" :> "e") @@ ("F" :> "f") @@ ("G" :> "g") @@ ("H" :> "h") @@
    ("I" :> "i") @@ ("J" :> "j") @@ ("K" :> "k") @@ ("L" :> "l") @@
    ("M" :> "m") @@ ("N" :> "n") @@ ("O" :> "o") @@ ("P" :> "p") @@
    ("Q" :> "q") @@ ("R" :> "r") @@ ("S" :> "s") @@ ("T" :> "t") @@
    ("U" :> "u") @@ ("V" :> "v") @@ ("W" :> "w") @@ ("X" :> "x") @@
    ("Y" :> "y") @@ ("Z" :> "z")

\* String.prototype.toLowerCase
ToLowerCase(s) ==
    SubSeq([i \in 1..Len(s) |->
               IF s[i] \in DOMAIN LowerOf THEN LowerOf[s[i]] ELSE s[i]],
           1, Len(s))

\* w occurs in s at position i
HasAt(s, w, i) ==
    /\ i >= 1
    /\ i + Len(w) - 1 <= Len(s)
    /\ \A j \in 1..Len(w) : s[i + j - 1] = w[j]

\* String.prototype.includes
Includes(s, w) == \E i \in 1..(Len(s) - Len(w) + 1) : HasAt(s, w, i)

\* String.prototype.trim left out: the string as it is.
Trim_None(s) == s

\* String.prototype.trim
Trim(s) ==
    IF \A i \in 1..Len(s) : s[i] \in WhiteSpace
    THEN << >>
    ELSE LET first == CHOOSE i \in 1..Len(s) :
                          /\ s[i] \notin WhiteSpace
                          /\ \A j \in 1..(i - 1) : s[j] \in WhiteSpace
             last  == CHOOSE i \in 1..Len(s) :
                          /\ s[i] \notin WhiteSpace
                          /\ \A j \in (i + 1)..Len(s) : s[j] \in WhiteSpace
         IN  SubSeq(s, first, last)

\* String.prototype.substring(0, n) and String.prototype.slice(0, n), n >= 0
Substring(s, n) == SubSeq(s, 1, IF Len(s) < n THEN Len(s) ELSE n)

\* n copies of the character c
Repeat(c, n) == SubSeq([i \in 1..n |-> c], 1, n)

(***************************************************************************)
(* Input safety classifier and query sanitizer                             *)
(***************************************************************************)

RiskLevel == [LOW |-> "low", MEDIUM |-> "medium", HIGH |-> "high"]

MAX_QUERY_LENGTH == 5000

MIN_QUERY_LENGTH == 3

\* A pattern /head.?tail/i (optional) or /head/i (tail empty, not optional).
SUSPICIOUS_PATTERNS ==
    << [head |-> <<"p","r","o","m","p","t">>,
        tail |-> <<"i","n","j","e","c","t","i","o","n">>, optional |-> TRUE],
       [head |-> <<"i","g","n","o","r","e">>,
        tail |-> <<"p","r","e","v","i","o","u","s">>, optional |-> TRUE],
       [head |-> <<"f","o","r","g","e","t">>,
        tail |-> <<"i","n","s","t","r","u","c","t","i","o","n","s">>,
        optional |-> TRUE],
       [head |-> <<"s","y","s","t","e","m">>,
        tail |-> <<"p","r","o","m","p","t">>, optional |-> TRUE],
       [head |-> <<"n","e","w">>,
        tail |-> <<"i","n","s","t","r","u","c","t","i","o","n","s">>,
        optional |-> TRUE],
       [head |-> <<"o","v","e","r","r","i","d","e">>,
        tail |-> << >>, optional |-> FALSE],
       [head |-> <<"j","a","i","l","b","r","e","a","k">>,
        tail |-> << >>, optional |-> FALSE],
       [head |-> <<"h","a","c","k">>,
        tail |-> << >>, optional |-> FALSE],
       [head |-> <<"e","x","p","l","o","i","t">>,
        tail |-> << >>, optional |-> FALSE] >>

HIGH_RISK_KEYWORDS ==
    << <<"i","g","n","o","r","e"," ","a","l","l"," ","p","r","e","v","i","o","u","s">>,
       <<"f","o","r","g","e","t"," ","e","v","e","r","y","t","h","i","n","g">>,
       <<"n","e","w"," ","i","n","s","t","r","u","c","t","i","o","n","s">>,
       <<"s","y","s","t","e","m"," ","o","v","e","r","r","i","d","e">>,
       <<"d","e","v","e","l","o","p","e","r"," ","m","o","d","e">> >>

MEDIUM_RISK_KEYWORDS ==
    << <<"p","r","e","t","e","n","d">>,
       <<"a","c","t"," ","a","s">>,
       <<"r","o","l","e","p","l","a","y">>,
       <<"s","i","m","u","l","a","t","e">> >>

\* RegExp.prototype.test for a pattern of SUSPICIOUS_PATTERNS (flag i, no
\* anchors): s is the subject with its letters case-folded.
PatternTest(pattern, s) ==
    \E i \in 1..Len(s) :
        /\ HasAt(s, pattern.head, i)
        /\ \/ HasAt(s, pattern.tail, i + Len(pattern.head))
           \/ /\ pattern.optional
              /\ i + Len(pattern.head) <= Len(s)
              /\ s[i + Len(pattern.head)] \notin LineTerminators
              /\ HasAt(s, pattern.tail, i + Len(pattern.head) + 1)

\* The loop "for (const keyword of keywords) if (lowerQuery.includes(keyword))
\* return ...": the index of the keyword the loop returns at, 0 when it ends.
RECURSIVE KeywordLoop(_, _, _)
KeywordLoop(keywords, lowerQuery, k) ==
    IF k > Len(keywords) THEN 0
    ELSE IF Includes(lowerQuery, keywords[k]) THEN k
    ELSE KeywordLoop(keywords, lowerQuery, k + 1)

\* The ratio test with the threshold included: specialCharRatio >= 0.3.
SpecialCharRatioExceeded_AtThreshold(query) ==
    10 * Cardinality({i \in 1..Len(query) : query[i] \in SpecialChars})
        >= 3 * Len(query)

\* (query.match(/[...]/g)?.length || 0) / query.length > 0.3, over integers
SpecialCharRatioExceeded(query) ==
    10 * Cardinality({i \in 1..Len(query) : query[i] \in SpecialChars})
        > 3 * Len(query)

\* A reason is a fixed text followed by the keyword the template inserts
\* (empty where the reason is a fixed text alone).
Reason(text, keyword) == [text |-> text, keyword |-> keyword]

\* A verdict whose passed field is left true whatever the test that fired.
SafetyCheck_PassedAlways(passed, risk_level, reason) ==
    [passed |-> TRUE, risk_level |-> risk_level, reason |-> reason]

SafetyCheck(passed, risk_level, reason) ==
    [passed |-> passed, risk_level |-> risk_level, reason |-> reason]

\* checkInputSafety with the length test moved before the too-short test.
checkInputSafety_LengthFirst(query) ==
    IF Len(query) > MAX_QUERY_LENGTH
    THEN SafetyCheck(FALSE, RiskLevel.HIGH,
                     Reason("Query exceeds maximum length", << >>))
    ELSE IF Len(query) = 0 \/ Len(Trim(query)) < MIN_QUERY_LENGTH
    THEN SafetyCheck(FALSE, RiskLevel.LOW,
                     Reason("Query too short or empty", << >>))
    ELSE LET lowerQuery == ToLowerCase(query)
             high   == KeywordLoop(HIGH_RISK_KEYWORDS, lowerQuery, 1)
             medium == KeywordLoop(MEDIUM_RISK_KEYWORDS, lowerQuery, 1)
         IN
         IF \E p \in 1..Len(SUSPICIOUS_PATTERNS) :
                PatternTest(SUSPICIOUS_PATTERNS[p], lowerQuery)
         THEN SafetyCheck(FALSE, RiskLevel.HIGH,
                          Reason("Detected prompt injection pattern", << >>))
         ELSE IF high # 0
         THEN SafetyCheck(FALSE, RiskLevel.HIGH,
                          Reason("Contains high-risk keyword: ",
                                 HIGH_RISK_KEYWORDS[high]))
         ELSE IF medium # 0
         THEN SafetyCheck(TRUE, RiskLevel.MEDIUM,
                          Reason("Contains medium-risk keyword: ",
                                 MEDIUM_RISK_KEYWORDS[medium]))
         ELSE IF SpecialCharRatioExceeded(query)
         THEN SafetyCheck(TRUE, RiskLevel.MEDIUM,
                          Reason("High ratio of special characters detected", << >>))
         ELSE SafetyCheck(TRUE, RiskLevel.LOW,
                          Reason("No safety concerns detected", << >>))

checkInputSafety(query) ==
    IF Len(query) = 0 \/ Len(Trim(query)) < MIN_QUERY_LENGTH
    THEN SafetyCheck(FALSE, RiskLevel.LOW,
                     Reason("Query too short or empty", << >>))
    ELSE IF Len(query) > MAX_QUERY_LENGTH
    THEN SafetyCheck(FALSE, RiskLevel.HIGH,
                     Reason("Query exceeds maximum length", << >>))
    ELSE LET lowerQuery == ToLowerCase(query)
             high   == KeywordLoop(HIGH_RISK_KEYWORDS, lowerQuery, 1)
             medium == KeywordLoop(MEDIUM_RISK_KEYWORDS, lowerQuery, 1)
         IN
         IF \E p \in 1..Len(SUSPICIOUS_PATTERNS) :
                PatternTest(SUSPICIOUS_PATTERNS[p], lowerQuery)
         THEN SafetyCheck(FALSE, RiskLevel.HIGH,
                          Reason("Detected prompt injection pattern", << >>))
         ELSE IF high # 0
         THEN SafetyCheck(FALSE, RiskLevel.HIGH,
                          Reason("Contains high-risk keyword: ",
                                 HIGH_RISK_KEYWORDS[high]))
         ELSE IF medium # 0
         THEN SafetyCheck(TRUE, RiskLevel.MEDIUM,
                          Reason("Contains medium-risk keyword: ",
                                 MEDIUM_RISK_KEYWORDS[medium]))
         ELSE IF SpecialCharRatioExceeded(query)
         THEN SafetyCheck(TRUE, RiskLevel.MEDIUM,
                          Reason("High ratio of special characters detected", << >>))
         ELSE SafetyCheck(TRUE, RiskLevel.LOW,
                          Reason("No safety concerns detected", << >>))

\* sanitizeQuery without its final slice(0, MAX_QUERY_LENGTH).
sanitizeQuery_NoCut(query) ==
    Trim(SelectSeq(query, LAMBDA c : c \notin ControlChars))

sanitizeQuery(query) ==
    Substring(Trim(SelectSeq(query, LAMBDA c : c \notin ControlChars)),
              MAX_QUERY_LENGTH)

(***************************************************************************)
(* Cost estimator                                                          *)
(***************************************************************************)

\* The price table in declaration order. Rates are USD per million tokens,
\* held in hundredths (0.25 is 25), so a cost is an integer number of
\* 10^-8 USD.
pricing ==
    << [key |-> <<"g","p","t","-","4">>, prompt |-> 3000, completion |-> 6000],
       [key |-> <<"g","p","t","-","4","-","t","u","r","b","o">>,
        prompt |-> 1000, completion |-> 3000],
       [key |-> <<"g","p","t","-","3",".","5","-","t","u","r","b","o">>,
        prompt |-> 50, completion |-> 150],
       [key |-> <<"c","l","a","u","d","e","-","3","-","o","p","u","s">>,
        prompt |-> 1500, completion |-> 7500],
       [key |-> <<"c","l","a","u","d","e","-","3","-","s","o","n","n","e","t">>,
        prompt |-> 300, completion |-> 1500],
       [key |-> <<"c","l","a","u","d","e","-","3","-","h","a","i","k","u">>,
        prompt |-> 25, completion |-> 125] >>

\* calculateCost with the rates taken per thousand tokens instead of per
\* million.
calculateCost_PerThousand(model, promptTokens, completionTokens) ==
    LET matching == {k \in 1..Len(pricing) : Includes(model, pricing[k].key)}
        modelKey == IF matching = {} THEN 3
                    ELSE CHOOSE k \in matching : \A j \in matching : k <= j
    IN  1000 * (promptTokens * pricing[modelKey].prompt
                    + completionTokens * pricing[modelKey].completion)

\* calculateCost without the branch for an identifier that matches no key:
\* no rates, no cost.
calculateCost_NoDefault(model, promptTokens, completionTokens) ==
    LET matching == {k \in 1..Len(pricing) : Includes(model, pricing[k].key)}
        modelKey == CHOOSE k \in matching : \A j \in matching : k <= j
    IN  IF matching = {} THEN 0
        ELSE promptTokens * pricing[modelKey].prompt
                 + completionTokens * pricing[modelKey].completion

\* calculateCost that prices by the longest table key the identifier
\* contains, instead of the first in declaration order.
calculateCost_LongestKey(model, promptTokens, completionTokens) ==
    LET matching == {k \in 1..Len(pricing) : Includes(model, pricing[k].key)}
        modelKey == IF matching = {} THEN 3
                    ELSE CHOOSE k \in matching :
                             \A j \in matching : Len(pricing[j].key) <= Len(pricing[k].key)
    IN  promptTokens * pricing[modelKey].prompt
            + completionTokens * pricing[modelKey].completion

calculateCost(model, promptTokens, completionTokens) ==
    LET matching == {k \in 1..Len(pricing) : Includes(model, pricing[k].key)}
        modelKey == IF matching = {} THEN 0
                    ELSE CHOOSE k \in matching : \A j \in matching : k <= j
        defaultPricing ==
            pricing[CHOOSE k \in 1..Len(pricing) :
                        pricing[k].key = <<"g","p","t","-","3",".","5","-","t","u","r","b","o">>]
        modelPricing == IF modelKey = 0 THEN defaultPricing ELSE pricing[modelKey]
    IN  promptTokens * modelPricing.prompt + completionTokens * modelPricing.completion

(***************************************************************************)
(* Response validation: safety/response.ts                                 *)
(***************************************************************************)

\* JavaScript values as a decoded answer holds them. A number is held in
\* hundredths (0.95 is 95); NaN is a number that is in no order relation.
Undefined == [type |-> "undefined"]

Null == [type |-> "null"]

Bool(b) == [type |-> "boolean", bool |-> b]

Str(s) == [type |-> "string", str |-> s]

Num(n) == [type |-> "number", nan |-> FALSE, val |-> n]

NaN == [type |-> "number", nan |-> TRUE, val |-> 0]

Array(items) == [type |-> "array", items |-> items]

\* typeof v
TypeOf(v) == IF v.type \in {"null", "array", "object"} THEN "object" ELSE v.type

\* !v is false: v is none of undefined, null, false, "", 0, NaN
ToBoolean(v) ==
    CASE v.type \in {"undefined", "null"} -> FALSE
      [] v.type = "boolean" -> v.bool
      [] v.type = "string" -> Len(v.str) > 0
      [] v.type = "number" -> ~v.nan /\ v.val # 0
      [] OTHER -> TRUE

\* v < n and v > n for a number v: both false of NaN
LessThan(v, n) == ~v.nan /\ v.val < n

GreaterThan(v, n) == ~v.nan /\ v.val > n

\* Array.isArray(v)
IsArray(v) == v.type = "array"

Returns == [threw |-> FALSE, message |-> ""]

Throws(message) == [threw |-> TRUE, message |-> message]

validateResponse(response) ==
    IF ~ToBoolean(response.answer) \/ TypeOf(response.answer) # "string"
    THEN Throws("Missing or invalid answer field")
    ELSE IF \/ TypeOf(response.confidence) # "number"
            \/ LessThan(response.confidence, 0)
            \/ GreaterThan(response.confidence, 100)
    THEN Throws("Confidence must be a number between 0 and 1")
    ELSE IF ~IsArray(response.actions)
    THEN Throws("Actions must be an array")
    ELSE IF ~ToBoolean(response.category) \/ TypeOf(response.category) # "string"
    THEN Throws("Missing or invalid category field")
    ELSE IF ~IsArray(response.tags)
    THEN Throws("Tags must be an array")
    ELSE Returns

(***************************************************************************)
(* Response parsing: safety/response.ts                                    *)
(***************************************************************************)

\* The whitespace JSON.parse skips between tokens.
JsonWhiteSpace == {" ", "TAB", "LF", "CR"}

Digits == <<"0","1","2","3","4","5","6","7","8","9">>

IsDigit(c) == \E k \in 1..10 : Digits[k] = c

DigitValue(c) == (CHOOSE k \in 1..10 : Digits[k] = c) - 1

\* The characters that cannot stand unescaped inside a JSON string. Escape
\* sequences are not decoded: a backslash ends the decoding as these do.
NotInJsonString == ControlChars \cup {"TAB", "LF", "CR", "BACKSLASH"}

\* The SyntaxError of JSON.parse, by what its message tells: the unexpected
\* character and its position, or the end of the input.
UnexpectedToken(t, i) ==
    IF i > Len(t) THEN [name |-> "SyntaxError", unexpected |-> "end of JSON input", at |-> i]
    ELSE [name |-> "SyntaxError", unexpected |-> t[i], at |-> i]

NoDecodeError == [name |-> "none", unexpected |-> "", at |-> 0]

Decoded(val, next) == [ok |-> TRUE, val |-> val, next |-> next, err |-> NoDecodeError]

Failed(t, i) == [ok |-> FALSE, val |-> Undefined, next |-> i, err |-> UnexpectedToken(t, i)]

\* The first position from i on that holds no character of the set (the
\* position after the end when there is none).
SkipAll(t, i, set) ==
    LET stops == {j \in i..(Len(t) + 1) : j = Len(t) + 1 \/ t[j] \notin set}
    IN  CHOOSE j \in stops : \A k \in stops : j <= k

SkipWs(t, i) == SkipAll(t, i, JsonWhiteSpace)

RECURSIVE DigitsValue(_, _, _)
DigitsValue(t, i, j) ==
    IF j < i THEN 0 ELSE DigitsValue(t, i, j - 1) * 10 + DigitValue(t[j])

\* A string token starting at the quote at i.
ParseString(t, i) ==
    LET stops == {j \in (i + 1)..(Len(t) + 1) :
                     j = Len(t) + 1 \/ t[j] \in NotInJsonString \cup {"QUOTE"}}
        j == CHOOSE j \in stops : \A k \in stops : j <= k
    IN  IF j <= Len(t) /\ t[j] = "QUOTE"
        THEN Decoded(Str(SubSeq(t, i + 1, j - 1)), j + 1)
        ELSE Failed(t, j)

\* A number token starting at i: -? int (. digits)?, without exponent. The
\* value is held in hundredths, as the decimals of the model's texts allow.
ParseNumber(t, i) ==
    LET first == IF t[i] = "-" THEN i + 1 ELSE i
        intEnd == SkipAll(t, first, {Digits[k] : k \in 1..10})
        hasFrac == intEnd <= Len(t) /\ t[intEnd] = "."
        fracEnd == IF hasFrac THEN SkipAll(t, intEnd + 1, {Digits[k] : k \in 1..10})
                   ELSE intEnd
        tenths == IF fracEnd > intEnd + 1 THEN DigitValue(t[intEnd + 1]) ELSE 0
        hundredths == IF fracEnd > intEnd + 2 THEN DigitValue(t[intEnd + 2]) ELSE 0
        magnitude == DigitsValue(t, first, intEnd - 1) * 100 + tenths * 10 + hundredths
    IN  IF intEnd = first THEN Failed(t, first)
        ELSE IF intEnd > first + 1 /\ t[first] = "0" THEN Failed(t, first + 1)
        ELSE IF hasFrac /\ fracEnd = intEnd + 1 THEN Failed(t, fracEnd)
        ELSE Decoded(Num(IF first = i THEN magnitude ELSE 0 - magnitude), fracEnd)

Object(fields) == [type |-> "object", fields |-> fields]

\* obj[key] = val: a repeated key keeps its last value
SetField(fields, key, val) ==
    [k \in (DOMAIN fields) \cup {key} |-> IF k = key THEN val ELSE fields[k]]

Literals ==
    << [text |-> <<"t","r","u","e">>, val |-> Bool(TRUE)],
       [text |-> <<"f","a","l","s","e">>, val |-> Bool(FALSE)],
       [text |-> <<"n","u","l","l">>, val |-> Null] >>

RECURSIVE ParseValue(_, _), ParseMembers(_, _, _), ParseElements(_, _, _)

\* The JSON value that starts at i, after whitespace.
ParseValue(t, at) ==
    LET i == SkipWs(t, at) IN
    IF i > Len(t) THEN Failed(t, i)
    ELSE IF t[i] = "{"
    THEN LET j == SkipWs(t, i + 1) IN
         IF j <= Len(t) /\ t[j] = "}" THEN Decoded(Object(<< >>), j + 1)
         ELSE ParseMembers(t, j, << >>)
    ELSE IF t[i] = "["
    THEN LET j == SkipWs(t, i + 1) IN
         IF j <= Len(t) /\ t[j] = "]" THEN Decoded(Array(<< >>), j + 1)
         ELSE ParseElements(t, j, << >>)
    ELSE IF t[i] = "QUOTE" THEN ParseString(t, i)
    ELSE IF t[i] = "-" \/ IsDigit(t[i]) THEN ParseNumber(t, i)
    ELSE IF \E k \in 1..3 : HasAt(t, Literals[k].text, i)
    THEN LET k == CHOOSE k \in 1..3 : HasAt(t, Literals[k].text, i)
         IN  Decoded(Literals[k].val, i + Len(Literals[k].text))
    ELSE Failed(t, i)

\* The members of an object from the key at i on, up to its closing brace.
ParseMembers(t, i, fields) ==
    IF i > Len(t) \/ t[i] # "QUOTE" THEN Failed(t, i)
    ELSE LET key == ParseString(t, i)
             colon == SkipWs(t, key.next)
         IN
         IF ~key.ok THEN key
         ELSE IF colon > Len(t) \/ t[colon] # ":" THEN Failed(t, colon)
         ELSE LET member == ParseValue(t, colon + 1)
                  after == SkipWs(t, member.next)
                  sofar == SetField(fields, key.val.str, member.val)
              IN
              IF ~member.ok THEN member
              ELSE IF after <= Len(t) /\ t[after] = "}"
              THEN Decoded(Object(sofar), after + 1)
              ELSE IF after <= Len(t) /\ t[after] = ","
              THEN ParseMembers(t, SkipWs(t, after + 1), sofar)
              ELSE Failed(t, after)

\* The elements of an array from the element at i on, up to its bracket.
ParseElements(t, i, items) ==
    LET element == ParseValue(t, i)
        after == SkipWs(t, element.next)
    IN
    IF ~element.ok THEN element
    ELSE IF after <= Len(t) /\ t[after] = "]"
    THEN Decoded(Array(Append(items, element.val)), after + 1)
    ELSE IF after <= Len(t) /\ t[after] = ","
    THEN ParseElements(t, after + 1, Append(items, element.val))
    ELSE Failed(t, after)

\* JSON.parse(text): one value, whitespace around it, nothing after it
JSONParse(t) ==
    LET value == ParseValue(t, 1)
        after == SkipWs(t, value.next)
    IN
    IF ~value.ok THEN value
    ELSE IF after <= Len(t) THEN Failed(t, after)
    ELSE value

\* String.prototype.startsWith
StartsWith(s, w) == HasAt(s, w, 1)

\* String.prototype.endsWith
EndsWith(s, w) == HasAt(s, w, Len(s) - Len(w) + 1)

Fence == <<"BACKTICK","BACKTICK","BACKTICK">>

FenceJson == Fence \o <<"j","s","o","n">>

\* s.replace(/^<opening>\s*/, ''), for s that starts with the opening
StripOpening(s, opening) ==
    SubSeq(s, SkipAll(s, Len(opening) + 1, WhiteSpace), Len(s))

\* s.replace(/\s*```$/, ''): the closing fence at the end of s and the
\* whitespace before it; s as it is when it does not end with the fence.
StripClosing(s) ==
    IF ~EndsWith(s, Fence) THEN s
    ELSE LET body == SubSeq(s, 1, Len(s) - Len(Fence))
             kept == {j \in 0..Len(body) :
                         \A k \in (j + 1)..Len(body) : body[k] \in WhiteSpace}
         IN  SubSeq(body, 1, CHOOSE j \in kept : \A k \in kept : j <= k)

\* The text parseJSONResponse hands to JSON.parse.
Cleaned(text) ==
    LET cleaned == Trim(text) IN
    IF StartsWith(cleaned, FenceJson)
    THEN StripClosing(StripOpening(cleaned, FenceJson))
    ELSE IF StartsWith(cleaned, Fence)
    THEN StripClosing(StripOpening(cleaned, Fence))
    ELSE cleaned

FailedToParse == "Failed to parse JSON response: "

NoMessage == [prefix |-> "", cause |-> NoDecodeError]

\* parseJSONResponse that strips the tagged fence alone.
parseJSONResponse_TaggedOnly(text) ==
    LET cleaned == Trim(text)
        decoded == JSONParse(IF StartsWith(cleaned, FenceJson)
                             THEN StripClosing(StripOpening(cleaned, FenceJson))
                             ELSE cleaned)
    IN  IF decoded.ok
        THEN [threw |-> FALSE, value |-> decoded.val, message |-> NoMessage]
        ELSE [threw |-> TRUE, value |-> Undefined,
              message |-> [prefix |-> FailedToParse, cause |-> decoded.err]]

\* parseJSONResponse without its catch clause: the SyntaxError as thrown.
parseJSONResponse_NoCatch(text) ==
    LET decoded == JSONParse(Cleaned(text)) IN
    IF decoded.ok
    THEN [threw |-> FALSE, value |-> decoded.val, message |-> NoMessage]
    ELSE [threw |-> TRUE, value |-> Undefined,
          message |-> [prefix |-> "", cause |-> decoded.err]]

parseJSONResponse(text) ==
    LET decoded == JSONParse(Cleaned(text)) IN
    IF decoded.ok
    THEN [threw |-> FALSE, value |-> decoded.val, message |-> NoMessage]
    ELSE [threw |-> TRUE, value |-> Undefined,
          message |-> [prefix |-> FailedToParse, cause |-> decoded.err]]

(***************************************************************************)
(* Inputs                                                                  *)
(***************************************************************************)

\* How far past MAX_QUERY_LENGTH the over-long questions reach.
Over == 1

\* Length of the filler of the questions longer than the logged prefixes.
Filler == 120

Hack == <<"h","a","c","k">>

ResetPassword ==
    <<"H","o","w"," ","d","o"," ","I"," ","r","e","s","e","t"," ","m","y"," ",
      "p","a","s","s","w","o","r","d","?">>

ShortQuestions ==
    { << >>,
      <<" "," "," ">>,
      <<"h","i">>,
      <<" ","a","TAB">>,
      ResetPassword,
      Hack,
      <<"H","A","C","K"," ","m","y"," ","a","c","c","o","u","n","t">>,
      <<"s","y","s","t","e","m"," ","o","v","e","r","r","i","d","e">>,
      <<"d","e","v","e","l","o","p","e","r"," ","m","o","d","e">>,
      <<"I","g","n","o","r","e"," ","a","l","l"," ","p","r","e","v","i","o","u","s">>,
      <<"f","o","r","g","e","t"," ","e","v","e","r","y","t","h","i","n","g">>,
      <<"n","e","w"," ","i","n","s","t","r","u","c","t","i","o","n","s">>,
      <<"p","r","e","t","e","n","d"," ","y","o","u"," ","a","r","e">>,
      <<"d","e","v","e","l","o","p","e","r"," ","m","o","d","e"," ",
        "p","r","e","t","e","n","d">>,
      <<"s","i","m","u","l","a","t","e"," ","a","c","t"," ","a","s">>,
      <<"!","!","!","a","b","c","d","e","f","g">>,
      <<"!","!","!","!","a","b","c","d","e","f","g">>,
      <<"<","p","r","e","t","e","n","d",">","!","!">>,
      <<"i","g","n","o","r","e"," ","p","r","e","v","i","o","u","s"," ",
        "i","n","s","t","r","u","c","t","i","o","n","s">>,
      <<"i","g","n","o","r","e","LF","p","r","e","v","i","o","u","s">>,
      <<"h","a","NUL","c","k">> }

LongQuestions ==
    { Repeat(" ", MAX_QUERY_LENGTH + Over - 2) \o <<"h","i">>,
      Repeat(" ", MAX_QUERY_LENGTH + Over),
      <<"a","b","c">> \o Repeat(" ", MAX_QUERY_LENGTH + Over - 3),
      Repeat("a", MAX_QUERY_LENGTH + Over),
      Repeat("a", MAX_QUERY_LENGTH),
      Hack \o Repeat("a", MAX_QUERY_LENGTH + Over - 4),
      Hack \o Repeat("a", Filler),
      ResetPassword \o Repeat("a", 2 * Filler) }

Questions == ShortQuestions \cup LongQuestions

\* A value of a JSON request body field, or undefined when the field is absent.
JsonUndefined == [type |-> "undefined", str |-> << >>]

JsonNumber == [type |-> "number", str |-> << >>]

JsonString(s) == [type |-> "string", str |-> s]

\* JavaScript truthiness of such a value (the number is non-zero)
Truthy(v) == \/ v.type = "number"
             \/ v.type = "string" /\ Len(v.str) > 0

Gpt4 == <<"g","p","t","-","4">>

Gpt35Turbo == <<"g","p","t","-","3",".","5","-","t","u","r","b","o">>

Bodies ==
    [question : {JsonUndefined, JsonNumber} \cup {JsonString(q) : q \in Questions},
     model    : {JsonUndefined, JsonNumber, JsonString(Gpt4), JsonString(<<" ">>)}]

\* What the model provider would answer if it were called: a structured
\* answer and its token usage.
ProviderReplies ==
    { [content |-> [answer |-> <<"Click 'Forgot Password' on the login page.">>,
                    confidence |-> 95,
                    actions |-> <<"Check email for reset link">>,
                    category |-> "account",
                    tags |-> <<"password", "reset">>],
       usage |-> [prompt_tokens |-> 523, completion_tokens |-> 142]] }

(***************************************************************************)
(* State                                                                   *)
(***************************************************************************)

VARIABLES
    env,            \* process.env: which variables are set, and DEFAULT_MODEL
    promptFile,     \* whether prompts/main_prompt.md can be read
    provider,       \* the reply the model provider would give to a call
    pc,             \* where the request is: "idle", a state of processQuery, "RESPONDED"
    question,       \* processQuery's first argument
    model,          \* processQuery's second argument
    safetyCheck,    \* processQuery's local safetyCheck
    sanitizedQuery, \* processQuery's local sanitizedQuery
    error,          \* the error caught by processQuery's catch clause
    stages,         \* the states processQuery has passed through, in order
    result,         \* the QueryResult processQuery returned
    http,           \* the response of POST /completions
    request         \* the JSON body of the request, once it is read

pipelineVars ==
    <<env, promptFile, provider, pc, question, model, safetyCheck,
      sanitizedQuery, error, stages, result, http, request>>

NoCheck == [passed |-> FALSE, risk_level |-> "none", reason |-> Reason("", << >>)]

NoError == [message |-> ""]

NoResult == [returned |-> FALSE]

NoResponse == [status |-> 0, body |-> NoResult]

\* No body read yet, or a body that is not JSON.
NoRequest == [unread |-> TRUE]

InitPipeline ==
    /\ env \in [OPENROUTER_API_KEY : BOOLEAN,
                OPENAI_API_KEY     : BOOLEAN,
                DEFAULT_MODEL      : {JsonUndefined, JsonString(Gpt35Turbo)}]
    /\ promptFile \in BOOLEAN
    /\ provider \in ProviderReplies
    /\ pc = "idle"
    /\ question = << >>
    /\ model = << >>
    /\ safetyCheck = NoCheck
    /\ sanitizedQuery = << >>
    /\ error = NoError
    /\ stages = << >>
    /\ result = NoResult
    /\ http = NoResponse
    /\ request = NoRequest

(***************************************************************************)
(* POST /completions                                                       *)
(***************************************************************************)

\* String(value) of a request field or environment variable
String(v) == IF v.type = "undefined" THEN <<"u","n","d","e","f","i","n","e","d">>
             ELSE v.str

\* !question || typeof question !== 'string' || question.trim().length === 0
InvalidQuestion(q) ==
    \/ ~Truthy(q)
    \/ q.type # "string"
    \/ Len(Trim(q.str)) = 0

\* model || String(process.env.DEFAULT_MODEL)
ModelToUse(m) == IF Truthy(m) THEN m ELSE JsonString(String(env.DEFAULT_MODEL))

Respond(status, body) ==
    /\ http' = [status |-> status, body |-> body]
    /\ pc' = "RESPONDED"

\* c.req.json() throws on a body that is not JSON; the handler's catch answers.
MalformedBody ==
    /\ pc = "idle"
    /\ Respond(500, [error |-> "Internal server error",
                      message |-> "Unexpected token in JSON"])
    /\ UNCHANGED <<request, env, promptFile, provider, question, model, safetyCheck,
                   sanitizedQuery, error, stages, result>>

RejectQuestion(body) ==
    /\ pc = "idle"
    /\ InvalidQuestion(body.question)
    /\ Respond(400, [error |-> "Invalid request",
                      message |-> "Missing or invalid \"question\" field. It must be a string."])
    /\ request' = body
    /\ UNCHANGED <<env, promptFile, provider, question, model, safetyCheck,
                   sanitizedQuery, error, stages, result>>

RejectModel(body) ==
    /\ pc = "idle"
    /\ ~InvalidQuestion(body.question)
    /\ ModelToUse(body.model).type = "string"
    /\ \/ ~Truthy(ModelToUse(body.model))
       \/ Len(Trim(ModelToUse(body.model).str)) = 0
    /\ Respond(400, [error |-> "Invalid request",
                      message |-> "Missing or invalid \"model\" field. It must be a string."])
    /\ request' = body
    /\ UNCHANGED <<env, promptFile, provider, question, model, safetyCheck,
                   sanitizedQuery, error, stages, result>>

\* modelToUse.trim is not a function when the model field is a number: the
\* TypeError is caught by the handler's catch.
ModelTypeError(body) ==
    /\ pc = "idle"
    /\ ~InvalidQuestion(body.question)
    /\ ModelToUse(body.model).type # "string"
    /\ Respond(500, [error |-> "Internal server error",
                      message |-> "modelToUse.trim is not a function"])
    /\ request' = body
    /\ UNCHANGED <<env, promptFile, provider, question, model, safetyCheck,
                   sanitizedQuery, error, stages, result>>

CallProcessQuery(body) ==
    /\ pc = "idle"
    /\ ~InvalidQuestion(body.question)
    /\ ModelToUse(body.model).type = "string"
    /\ Truthy(ModelToUse(body.model))
    /\ Len(Trim(ModelToUse(body.model).str)) # 0
    /\ question' = body.question.str
    /\ model' = ModelToUse(body.model).str
    /\ pc' = "START"
    /\ stages' = <<"START">>
    /\ request' = body
    /\ UNCHANGED <<env, promptFile, provider, safetyCheck, sanitizedQuery,
                   error, result, http>>

\* return c.json(result, 200)
RespondResult ==
    /\ pc \in {"BLOCKED", "FAILED", "SUCCESS"}
    /\ Respond(200, result)
    /\ UNCHANGED <<request, env, promptFile, provider, question, model, safetyCheck,
                   sanitizedQuery, error, stages, result>>

(***************************************************************************)
(* processQuery                                                            *)
(***************************************************************************)

\* The gate with the negation of "passed" lost.
Blocks_NegationLost(check) == check.passed /\ check.risk_level = RiskLevel.HIGH

\* The gate with the risk-level test lost: every failed check blocks.
Blocks_AnyFailed(check) == ~check.passed

\* !safetyCheck.passed && safetyCheck.risk_level === RiskLevel.HIGH
Blocks(check) == ~check.passed /\ check.risk_level = RiskLevel.HIGH

\* The refusal with the logged query left at its full length.
BlockedResult_FullQuery(q, check) ==
    [response |-> [answer |-> <<"I cannot process this request due to security concerns.">>,
                   confidence |-> 100,
                   actions |-> <<"Please rephrase your question",
                                 "Contact support if you need assistance">>,
                   category |-> "other",
                   tags |-> <<"safety", "moderation">>],
     metrics  |-> [query |-> q,
                   tokens_prompt |-> 0,
                   tokens_completion |-> 0,
                   total_tokens |-> 0,
                   estimated_cost_usd |-> 0,
                   model |-> <<"s","a","f","e","t","y","-","f","i","l","t","e","r">>],
     safety   |-> check]

\* The QueryResult of the safety short-circuit. Confidence is in hundredths;
\* timestamp and latency_ms are clock readings and are left out.
BlockedResult(q, check) ==
    [response |-> [answer |-> <<"I cannot process this request due to security concerns.">>,
                   confidence |-> 100,
                   actions |-> <<"Please rephrase your question",
                                 "Contact support if you need assistance">>,
                   category |-> "other",
                   tags |-> <<"safety", "moderation">>],
     metrics  |-> [query |-> Substring(q, 100),
                   tokens_prompt |-> 0,
                   tokens_completion |-> 0,
                   total_tokens |-> 0,
                   estimated_cost_usd |-> 0,
                   model |-> <<"s","a","f","e","t","y","-","f","i","l","t","e","r">>],
     safety   |-> check]

\* The QueryResult the try block returns.
TryResult(q, m) ==
    [metrics  |-> [model |-> m,
                   query |-> q,
                   tokens_prompt |-> 0,
                   tokens_completion |-> 0,
                   total_tokens |-> 0,
                   estimated_cost_usd |-> 0],
     safety   |-> [passed |-> TRUE, risk_level |-> RiskLevel.LOW],
     response |-> [answer |-> <<"Hello, world!">>,
                   confidence |-> 95,
                   actions |-> <<"action1", "action2">>,
                   category |-> "category",
                   tags |-> <<"tag1", "tag2">>]]

\* The error result with the caught error's message dropped.
ErrorResult_UnknownError(e, sanitized, check) ==
    [response |-> [answer |-> <<"I encountered an error processing your question: ",
                                "Unknown error">>,
                   confidence |-> 0,
                   actions |-> <<"Please try rephrasing your question",
                                 "Contact support if the issue persists">>,
                   category |-> "other",
                   tags |-> <<"error">>],
     metrics  |-> [query |-> Substring(sanitized, 200),
                   tokens_prompt |-> 0,
                   tokens_completion |-> 0,
                   total_tokens |-> 0,
                   estimated_cost_usd |-> 0,
                   model |-> <<"e","r","r","o","r">>],
     safety   |-> check]

\* The error result with the safety verdict left out.
ErrorResult_NoSafety(e, sanitized, check) ==
    [response |-> [answer |-> <<"I encountered an error processing your question: ",
                                e.message>>,
                   confidence |-> 0,
                   actions |-> <<"Please try rephrasing your question",
                                 "Contact support if the issue persists">>,
                   category |-> "other",
                   tags |-> <<"error">>],
     metrics  |-> [query |-> Substring(sanitized, 200),
                   tokens_prompt |-> 0,
                   tokens_completion |-> 0,
                   total_tokens |-> 0,
                   estimated_cost_usd |-> 0,
                   model |-> <<"e","r","r","o","r">>]]

\* The QueryResult of the catch clause.
ErrorResult(e, sanitized, check) ==
    [response |-> [answer |-> <<"I encountered an error processing your question: ",
                                e.message>>,
                   confidence |-> 0,
                   actions |-> <<"Please try rephrasing your question",
                                 "Contact support if the issue persists">>,
                   category |-> "other",
                   tags |-> <<"error">>],
     metrics  |-> [query |-> Substring(sanitized, 200),
                   tokens_prompt |-> 0,
                   tokens_completion |-> 0,
                   total_tokens |-> 0,
                   estimated_cost_usd |-> 0,
                   model |-> <<"e","r","r","o","r">>],
     safety   |-> check]

Enter(state) ==
    /\ pc' = state
    /\ stages' = Append(stages, state)

\* const safetyCheck = checkInputSafety(question)
CheckSafety ==
    /\ pc = "START"
    /\ safetyCheck' = checkInputSafety(question)
    /\ Enter("SAFETY_CHECKED")
    /\ UNCHANGED <<request, env, promptFile, provider, question, model, sanitizedQuery,
                   error, result, http>>

\* the safety gate: return the refusal
Block ==
    /\ pc = "SAFETY_CHECKED"
    /\ Blocks(safetyCheck)
    /\ result' = BlockedResult(question, safetyCheck)
    /\ Enter("BLOCKED")
    /\ UNCHANGED <<request, env, promptFile, provider, question, model, safetyCheck,
                   sanitizedQuery, error, http>>

\* const sanitizedQuery = sanitizeQuery(question)
Sanitize ==
    /\ pc = "SAFETY_CHECKED"
    /\ ~Blocks(safetyCheck)
    /\ sanitizedQuery' = sanitizeQuery(question)
    /\ Enter("SANITIZED")
    /\ UNCHANGED <<request, env, promptFile, provider, question, model, safetyCheck,
                   error, result, http>>

\* const prompt = await loadPromptTemplate(), the first statement of the try
\* block: fs.readFile rejects when the template cannot be read.
LoadPromptTemplate ==
    /\ pc = "SANITIZED"
    /\ IF promptFile
       THEN /\ Enter("PROMPT_LOADED")
            /\ error' = error
       ELSE /\ Enter("CAUGHT")
            /\ error' = [message |-> "ENOENT: no such file or directory, open 'main_prompt.md'"]
    /\ UNCHANGED <<request, env, promptFile, provider, question, model, safetyCheck,
                   sanitizedQuery, result, http>>

\* const client = createOpenAIClient()
CreateOpenAIClient ==
    /\ pc = "PROMPT_LOADED"
    /\ IF ~env.OPENROUTER_API_KEY /\ ~env.OPENAI_API_KEY
       THEN /\ Enter("CAUGHT")
            /\ error' = [message |-> "Either OPENROUTER_API_KEY or OPENAI_API_KEY must be set"]
       ELSE /\ Enter("CLIENT_CREATED")
            /\ error' = error
    /\ UNCHANGED <<request, env, promptFile, provider, question, model, safetyCheck,
                   sanitizedQuery, result, http>>

\* the return statement that ends the try block
ReturnFromTry ==
    /\ pc = "CLIENT_CREATED"
    /\ result' = TryResult(question, model)
    /\ Enter("SUCCESS")
    /\ UNCHANGED <<request, env, promptFile, provider, question, model, safetyCheck,
                   sanitizedQuery, error, http>>

\* the catch clause
Catch ==
    /\ pc = "CAUGHT"
    /\ result' = ErrorResult(error, sanitizedQuery, safetyCheck)
    /\ Enter("FAILED")
    /\ UNCHANGED <<request, env, promptFile, provider, question, model, safetyCheck,
                   sanitizedQuery, error, http>>

(***************************************************************************)
(* Direct calls of the exported pure functions                             *)
(***************************************************************************)

VARIABLES
    call            \* the last direct call: function, argument, return value

NoCall == [fn |-> "none", arg |-> << >>, ret |-> << >>]

InitCalls == call = NoCall

\* checkInputSafety(query), called as the test suite calls it
CallCheckInputSafety(query) ==
    call' = [fn |-> "checkInputSafety", arg |-> query, ret |-> checkInputSafety(query)]

\* sanitizeQuery(query)
CallSanitizeQuery(query) ==
    call' = [fn |-> "sanitizeQuery", arg |-> query, ret |-> sanitizeQuery(query)]

\* sanitizeQuery applied to what sanitizeQuery returned
CallSanitizeQueryAgain ==
    /\ call.fn = "sanitizeQuery"
    /\ CallSanitizeQuery(call.ret)

\* validateResponse(response); a field the object lacks reads as undefined
CallValidateResponse(response) ==
    call' = [fn |-> "validateResponse", arg |-> response,
             ret |-> validateResponse(response)]

\* The objects validateResponse is called with: the fields of the test
\* suite's objects, each valid, missing, of another type, or out of range.
Responses ==
    [answer     : {Undefined, Str(<< >>), Str(<<"T","e","s","t">>), Num(100)},
     confidence : {Undefined, Str(<<"0",".","9">>), Num(-10), Num(0), Num(90),
                   Num(100), Num(150), NaN},
     actions    : {Undefined, Str(<<"n","o">>), Array(<< >>),
                   Array(<<Str(<<"A","c","t","i","o","n">>)>>)},
     category   : {Undefined, Null, Str(<< >>), Str(<<"o","t","h","e","r">>)},
     tags       : {Undefined, Str(<<"n","o">>), Array(<<Str(<<"t","e","s","t">>)>>)}]

\* The payloads of the parseJSONResponse tests: JSON.stringify of the test
\* object, the same object laid out over lines, and an object with a fence
\* inside a string, nested values and literals.
CompactPayload ==
    <<"{","QUOTE","a","n","s","w","e","r","QUOTE",":","QUOTE","T","e","s",
      "t"," ","a","n","s","w","e","r","QUOTE",",","QUOTE","c","o","n","f",
      "i","d","e","n","c","e","QUOTE",":","0",".","9",",","QUOTE","a","c",
      "t","i","o","n","s","QUOTE",":","[","QUOTE","A","c","t","i","o","n",
      " ","1","QUOTE","]",",","QUOTE","c","a","t","e","g","o","r","y",
      "QUOTE",":","QUOTE","o","t","h","e","r","QUOTE",",","QUOTE","t","a",
      "g","s","QUOTE",":","[","QUOTE","t","e","s","t","QUOTE","]","}">>

PrettyPayload ==
    <<"{","LF"," "," ","QUOTE","a","n","s","w","e","r","QUOTE",":"," ",
      "QUOTE","T","e","s","t"," ","a","n","s","w","e","r","QUOTE",",","LF",
      " "," ","QUOTE","c","o","n","f","i","d","e","n","c","e","QUOTE",":",
      " ","0",".","9",",","LF"," "," ","QUOTE","a","c","t","i","o","n","s",
      "QUOTE",":"," ","[","QUOTE","A","c","t","i","o","n"," ","1","QUOTE",
      "]",",","LF"," "," ","QUOTE","c","a","t","e","g","o","r","y","QUOTE",
      ":"," ","QUOTE","o","t","h","e","r","QUOTE",",","LF"," "," ","QUOTE",
      "t","a","g","s","QUOTE",":"," ","[","QUOTE","t","e","s","t","QUOTE",
      "]","LF","}">>

NestedPayload ==
    <<"{","QUOTE","a","n","s","w","e","r","QUOTE",":","QUOTE","U","s","e",
      " ","BACKTICK","BACKTICK","BACKTICK","j","s","o","n","QUOTE",",",
      "QUOTE","c","o","n","f","i","d","e","n","c","e","QUOTE",":","1",",",
      "QUOTE","a","c","t","i","o","n","s","QUOTE",":","[","]",",","QUOTE",
      "m","e","t","a","QUOTE",":","{","QUOTE","o","k","QUOTE",":","t","r",
      "u","e",",","QUOTE","n","QUOTE",":","n","u","l","l",",","QUOTE","d",
      "QUOTE",":","-","0",".","2","5","}","}">>

Payloads == {CompactPayload, PrettyPayload, NestedPayload, <<"{","}">>}

\* A payload as the provider may send it: in a fenced code block with the
\* "json" tag, in a fenced code block without a tag, or with no fence.
TaggedForms == {"json", "json-tight", "json-crlf"}

UntaggedForms == {"fence", "fence-tight"}

BareForms == {"bare", "bare-padded"}

Wrap(form, payload) ==
    CASE form = "json" -> FenceJson \o <<"LF">> \o payload \o <<"LF">> \o Fence
      [] form = "json-tight" -> FenceJson \o payload \o Fence
      [] form = "json-crlf" ->
            <<" ">> \o FenceJson \o <<"CR","LF">> \o payload
                \o <<"CR","LF">> \o Fence \o <<"LF">>
      [] form = "fence" -> Fence \o <<"LF">> \o payload \o <<"LF">> \o Fence
      [] form = "fence-tight" -> Fence \o payload \o Fence
      [] form = "bare" -> payload
      [] OTHER -> <<"LF"," ">> \o payload \o <<" ">>

\* Texts that are not valid JSON once the fence is stripped: the text of the
\* test suite, a truncated payload, a fence after prose, a fence with an
\* upper-case tag, a trailing comma, an empty text and an empty fence.
InvalidTexts ==
    { <<"{"," ","QUOTE","a","n","s","w","e","r","QUOTE",":"," ","QUOTE","t",
        "e","s","t","QUOTE",","," ","i","n","v","a","l","i","d"," ","j","s",
        "o","n"," ","}">>,
      <<"{","QUOTE","a","n","s","w","e","r","QUOTE",":","QUOTE","T","e","s",
        "t">>,
      <<"H","e","r","e",":"," ","BACKTICK","BACKTICK","BACKTICK","j","s",
        "o","n","LF","{","}","LF","BACKTICK","BACKTICK","BACKTICK">>,
      <<"BACKTICK","BACKTICK","BACKTICK","J","S","O","N","LF","{","}","LF",
        "BACKTICK","BACKTICK","BACKTICK">>,
      <<"{","QUOTE","a","n","s","w","e","r","QUOTE",":","QUOTE","a","QUOTE",
        ",","}">>,
      << >>,
      FenceJson \o <<"LF">> \o Fence,
      Fence \o <<"LF">> \o <<"{","QUOTE","a","n","s","w","e","r","QUOTE",":","QUOTE","T","e","s",
        "t">> \o <<"LF">> \o Fence }

ParseInputs ==
    { Wrap(form, payload) :
          form \in TaggedForms \cup UntaggedForms \cup BareForms,
          payload \in Payloads }
    \cup InvalidTexts

\* parseJSONResponse(text)
CallParseJSONResponse(text) ==
    call' = [fn |-> "parseJSONResponse", arg |-> text,
             ret |-> parseJSONResponse(text)]

\* The model identifiers calculateCost is called with: the identifiers of
\* the test suite, identifiers with a provider prefix or a version suffix, an
\* identifier in upper case, and the empty identifier.
ModelIdentifiers ==
    { Gpt4, Gpt35Turbo, << >>,
      <<"g","p","t","-","4","-","t","u","r","b","o","-","p","r","e","v","i","e","w">>,
      <<"g","p","t","-","3",".","5","-","t","u","r","b","o","-","0","1","2","5">>,
      <<"u","n","k","n","o","w","n","-","m","o","d","e","l","-","x","y","z">>,
      <<"g","p","t","-","4","-","t","u","r","b","o">>,
      <<"o","p","e","n","a","i","/","g","p","t","-","4","-","t","u","r","b","o","-","p","r","e","v","i","e","w">>,
      <<"G","P","T","-","4","-","T","U","R","B","O">>,
      <<"a","n","t","h","r","o","p","i","c","/","c","l","a","u","d","e","-","3","-","o","p","u","s">>,
      <<"c","l","a","u","d","e","-","3","-","h","a","i","k","u","-","2","0","2","4","0","3","0","7">>,
      <<"u","n","k","n","o","w","n","-","m","o","d","e","l">> }

\* The token counts of the test suite and of the README's example.
TokenCounts == {0, 142, 500, 523, 1000}

\* calculateCost(model, promptTokens, completionTokens)
CallCalculateCost(m, promptTokens, completionTokens) ==
    call' = [fn |-> "calculateCost",
             arg |-> [model |-> m, promptTokens |-> promptTokens,
                      completionTokens |-> completionTokens],
             ret |-> calculateCost(m, promptTokens, completionTokens)]

\* Strings put before and after a short question.
Paddings == { << >>, <<" ">>, <<"!","!">>, <<"x","LF">> }

\* The phrase the injection tests of the test suite are built around.
IgnorePrevious ==
    <<"i","g","n","o","r","e"," ","p","r","e","v","i","o","u","s"," ",
      "i","n","s","t","r","u","c","t","i","o","n","s">>

\* Questions that contain the phrase: in another letter case, inside a
\* sentence, and followed by filler up to and past MAX_QUERY_LENGTH.
InjectionQuestions ==
    { <<"P","l","e","a","s","e"," ","I","G","N","O","R","E"," ",
        "P","r","e","v","i","o","u","s"," ",
        "I","n","s","t","r","u","c","t","i","o","n","s"," ","n","o","w">>,
      IgnorePrevious \o Repeat("a", MAX_QUERY_LENGTH - Len(IgnorePrevious)),
      IgnorePrevious \o Repeat("a", MAX_QUERY_LENGTH + Over - Len(IgnorePrevious)) }

\* Questions the cut of sanitizeQuery falls inside of: whitespace or a
\* control character at the cut, control characters before it.
CutQuestions ==
    { Repeat("a", MAX_QUERY_LENGTH - 1) \o <<" ","b">>,
      Repeat("a", MAX_QUERY_LENGTH - 1) \o <<"NUL","b">> \o Repeat("c", Over),
      <<"NUL"," ">> \o Repeat("a", MAX_QUERY_LENGTH + Over) \o <<" ","BEL">>,
      <<"a","ESC","b","DEL","c","TAB">> }

\* Questions around the threshold of the special-character ratio: the query
\* of the test suite, questions whose whitespace counts in the length, and
\* questions of MAX_QUERY_LENGTH characters with 30% and just over 30% of
\* special characters.
RatioQuestions ==
    { <<"<",">","{","}","{","}","[","]","[","]","<","<","<","<">>,
      <<"!","!","!","!","a","b","c","d","e","f","g"," "," "," ">>,
      <<" "," ","!","@","#","a","b","c","d"," ">>,
      <<" ","!","@","#","$","a","b","c","d","e","f"," ">>,
      <<"/","|","~","a","b">>,
      Repeat("!", 1500) \o Repeat("a", MAX_QUERY_LENGTH - 1500),
      Repeat("!", 1501) \o Repeat("a", MAX_QUERY_LENGTH - 1501) }

DirectInputs ==
    Questions \cup InjectionQuestions \cup CutQuestions \cup RatioQuestions \cup
    { pre \o q \o post : pre \in Paddings, q \in ShortQuestions, post \in Paddings }

(***************************************************************************)
(* Logging sink: logQueryData, logMetrics, logSafetyChecks                 *)
(***************************************************************************)

VARIABLES
    files,          \* the two log files: absent, a JSON array, or undecodable
    dirs,           \* whether the directory of each log file exists
    logCalls        \* the calls of logQueryData and their two writers

logVars == <<files, dirs, logCalls>>

\* "metrics" is metrics/metrics.json, written by logMetrics; "safety" is
\* reports/safety-reports/safety-checks.json, written by logSafetyChecks.
LogFiles == {"metrics", "safety"}

\* The requests that call logQueryData; a record is named by its request.
Requests == {"req1", "req2"}

Absent == [kind |-> "absent", records |-> << >>]

Corrupt == [kind |-> "corrupt", records |-> << >>]

JsonArray(records) == [kind |-> "array", records |-> records]

IdleWriter == [pc |-> "idle", all |-> << >>, faulted |-> FALSE]

IdleCall == [state |-> "idle", writers |-> [f \in LogFiles |-> IdleWriter]]

InitLog ==
    /\ files \in [LogFiles -> {Absent, Corrupt, JsonArray(<<"old">>)}]
    /\ dirs = [f \in LogFiles |-> files[f].kind # "absent"]
    /\ logCalls = [r \in Requests |-> IdleCall]

\* The directory helper without its catch clause: the rejection propagates.
AfterMkdirError_Rethrown == "threw"

\* ensureMetricsDir / ensureSafetyReportsDir: where the writer goes on after
\* fs.mkdir rejected (the catch clause reports and returns).
AfterMkdirError == "load"

\* loadMetrics / loadSafetyChecks: the array returned after fs.readFile or
\* JSON.parse threw.
AfterLoadError == << >>

\* saveMetrics / saveSafetyChecks: where the writer goes on after
\* fs.writeFile rejected.
AfterWriteError == "done"

SetWriter(r, f, w) ==
    logCalls' = [logCalls EXCEPT ![r].writers[f] = w]

\* logQueryData(metrics, query, safety): Promise.all starts logMetrics and
\* logSafetyChecks, each up to its first await (fs.mkdir).
LogQueryData(r) ==
    /\ logCalls[r].state = "idle"
    /\ logCalls' = [logCalls EXCEPT ![r] =
                       [state |-> "pending",
                        writers |-> [f \in LogFiles |->
                                        [IdleWriter EXCEPT !.pc = "ensure"]]]]
    /\ UNCHANGED <<files, dirs>>

\* await fs.mkdir(dir, { recursive: true }) settles; it succeeds when the
\* directory exists.
EnsureDir(r, f, ok) ==
    LET w == logCalls[r].writers[f] IN
    /\ w.pc = "ensure"
    /\ dirs[f] => ok
    /\ IF ok
       THEN /\ dirs' = [dirs EXCEPT ![f] = TRUE]
            /\ SetWriter(r, f, [w EXCEPT !.pc = "load"])
       ELSE /\ dirs' = dirs
            /\ SetWriter(r, f, [w EXCEPT !.pc = AfterMkdirError, !.faulted = TRUE])
    /\ UNCHANGED files

\* await fs.readFile settles, JSON.parse decodes, and the new record is
\* pushed. The read fails when the file is absent, and may fail otherwise.
Load(r, f, ok) ==
    LET w == logCalls[r].writers[f]
        decoded == ok /\ files[f].kind = "array"
        loaded == IF decoded THEN files[f].records ELSE AfterLoadError
    IN
    /\ w.pc = "load"
    /\ files[f].kind = "absent" => ~ok
    /\ SetWriter(r, f, [w EXCEPT !.pc = "save",
                                 !.all = Append(loaded, r),
                                 !.faulted = w.faulted \/ ~decoded])
    /\ UNCHANGED <<files, dirs>>

\* A writer that appends its own record to what the file holds when it
\* writes, instead of replacing the file by the array it read and extended.
Written_Appended(all, current) ==
    JsonArray(current.records \o <<all[Len(all)]>>)

\* What fs.writeFile(file, JSON.stringify(all, null, 2)) leaves in a file
\* that held current: the whole array of the writer, whatever the file held.
Written(all, current) == JsonArray(all)

\* await fs.writeFile(file, JSON.stringify(all)) settles. It fails when the
\* directory is missing, and may fail otherwise; a failed write leaves the
\* file as it was or, once opened for writing, cut short.
Save(r, f, ok, cut) ==
    LET w == logCalls[r].writers[f] IN
    /\ w.pc = "save"
    /\ ~dirs[f] => ~ok /\ ~cut
    /\ ok => ~cut
    /\ IF ok
       THEN /\ files' = [files EXCEPT ![f] = Written(w.all, files[f])]
            /\ SetWriter(r, f, [w EXCEPT !.pc = "done"])
       ELSE /\ files' = IF cut THEN [files EXCEPT ![f] = Corrupt] ELSE files
            /\ SetWriter(r, f, [w EXCEPT !.pc = AfterWriteError, !.faulted = TRUE])
    /\ UNCHANGED dirs

\* Promise.all: fulfilled once both promises are, rejected as soon as one is.
Settle(r) ==
    /\ logCalls[r].state = "pending"
    /\ \/ /\ \A f \in LogFiles : logCalls[r].writers[f].pc = "done"
          /\ logCalls' = [logCalls EXCEPT ![r].state = "resolved"]
       \/ /\ \E f \in LogFiles : logCalls[r].writers[f].pc = "threw"
          /\ logCalls' = [logCalls EXCEPT ![r].state = "rejected"]
    /\ UNCHANGED <<files, dirs>>

(***************************************************************************)
(* Specifications                                                          *)
(***************************************************************************)

vars == <<env, promptFile, provider, pc, question, model, safetyCheck,
          sanitizedQuery, error, stages, result, http, request, call, files,
          dirs, logCalls>>

\* A fresh installation: no log file written yet, no call of logQueryData.
LogUnused ==
    /\ files = [f \in LogFiles |-> Absent]
    /\ dirs = [f \in LogFiles |-> FALSE]
    /\ logCalls = [r \in Requests |-> IdleCall]

\* The server with no request in progress and a complete configuration.
PipelineIdle ==
    /\ InitPipeline
    /\ env = [OPENROUTER_API_KEY |-> TRUE, OPENAI_API_KEY |-> FALSE,
              DEFAULT_MODEL |-> JsonString(Gpt35Turbo)]
    /\ promptFile = TRUE

\* The HTTP server: one request through POST /completions and processQuery.
Init == InitPipeline /\ InitCalls /\ LogUnused

\* No statement of the handler or of processQuery calls logQueryData.
NoLogging == UNCHANGED <<call, logVars>>

Next ==
    \/ MalformedBody /\ NoLogging
    \/ \E body \in Bodies : RejectQuestion(body) /\ NoLogging
    \/ \E body \in Bodies : RejectModel(body) /\ NoLogging
    \/ \E body \in Bodies : ModelTypeError(body) /\ NoLogging
    \/ \E body \in Bodies : CallProcessQuery(body) /\ NoLogging
    \/ CheckSafety /\ NoLogging
    \/ Block /\ NoLogging
    \/ Sanitize /\ NoLogging
    \/ LoadPromptTemplate /\ NoLogging
    \/ CreateOpenAIClient /\ NoLogging
    \/ ReturnFromTry /\ NoLogging
    \/ Catch /\ NoLogging
    \/ RespondResult /\ NoLogging

Spec == Init /\ [][Next]_vars

\* The exported pure functions, called directly.
InitDirect == PipelineIdle /\ InitCalls /\ LogUnused

NextDirect ==
    \/ \E query \in DirectInputs :
          /\ call.fn = "none"
          /\ CallCheckInputSafety(query)
          /\ UNCHANGED <<pipelineVars, logVars>>
    \/ \E query \in DirectInputs :
          /\ call.fn = "none"
          /\ CallSanitizeQuery(query)
          /\ UNCHANGED <<pipelineVars, logVars>>
    \/ CallSanitizeQueryAgain /\ UNCHANGED <<pipelineVars, logVars>>
    \/ \E response \in Responses :
          /\ call.fn = "none"
          /\ CallValidateResponse(response)
          /\ UNCHANGED <<pipelineVars, logVars>>
    \/ \E text \in ParseInputs :
          /\ call.fn = "none"
          /\ CallParseJSONResponse(text)
          /\ UNCHANGED <<pipelineVars, logVars>>
    \/ \E m \in ModelIdentifiers, promptTokens \in TokenCounts,
          completionTokens \in TokenCounts :
          /\ call.fn = "none"
          /\ CallCalculateCost(m, promptTokens, completionTokens)
          /\ UNCHANGED <<pipelineVars, logVars>>

SpecDirect == InitDirect /\ [][NextDirect]_vars

\* The logging sink: calls of logQueryData, one after the other.
InitSink == PipelineIdle /\ InitCalls /\ InitLog

NoCallPending == \A r \in Requests : logCalls[r].state # "pending"

NextSink ==
    \/ \E r \in Requests :
          NoCallPending /\ LogQueryData(r) /\ UNCHANGED <<pipelineVars, call>>
    \/ \E r \in Requests, f \in LogFiles, ok \in BOOLEAN :
          EnsureDir(r, f, ok) /\ UNCHANGED <<pipelineVars, call>>
    \/ \E r \in Requests, f \in LogFiles, ok \in BOOLEAN :
          Load(r, f, ok) /\ UNCHANGED <<pipelineVars, call>>
    \/ \E r \in Requests, f \in LogFiles, ok \in BOOLEAN, cut \in BOOLEAN :
          Save(r, f, ok, cut) /\ UNCHANGED <<pipelineVars, call>>
    \/ \E r \in Requests : Settle(r) /\ UNCHANGED <<pipelineVars, call>>

SpecSink == InitSink /\ [][NextSink]_vars

\* The logging sink under concurrent requests: a call of logQueryData may
\* start while another is in progress, and their awaits interleave.
NextRace ==
    \/ \E r \in Requests :
          LogQueryData(r) /\ UNCHANGED <<pipelineVars, call>>
    \/ \E r \in Requests, f \in LogFiles, ok \in BOOLEAN :
          EnsureDir(r, f, ok) /\ UNCHANGED <<pipelineVars, call>>
    \/ \E r \in Requests, f \in LogFiles, ok \in BOOLEAN :
          Load(r, f, ok) /\ UNCHANGED <<pipelineVars, call>>
    \/ \E r \in Requests, f \in LogFiles, ok \in BOOLEAN, cut \in BOOLEAN :
          Save(r, f, ok, cut) /\ UNCHANGED <<pipelineVars, call>>
    \/ \E r \in Requests : Settle(r) /\ UNCHANGED <<pipelineVars, call>>

SpecRace == InitSink /\ [][NextRace]_vars
(***************************************************************************)
(* Properties                                                              *)
(***************************************************************************)

Terminal == {"BLOCKED", "FAILED", "SUCCESS"}

\* processQuery has returned (and the handler may have answered)
Returned == result # NoResult

\* processQuery has been called with the question and has classified it
Classified == Len(stages) >= 2

HighRiskFailure(check) == ~check.passed /\ check.risk_level = "high"

Passed(state) == \E i \in 1..Len(stages) : stages[i] = state

\* C1: a run of processQuery whose question checkInputSafety fails with risk
\* level HIGH passes through START, SAFETY_CHECKED and BLOCKED only: it never
\* reaches the sanitizer, the prompt load or the client construction, and
\* what it returns it returns in the BLOCKED state.
C1_HighRiskStopsAtGate ==
    (Len(stages) >= 1 /\ HighRiskFailure(checkInputSafety(question))) =>
        /\ \A i \in 1..Len(stages) :
               stages[i] \in {"START", "SAFETY_CHECKED", "BLOCKED"}
        /\ sanitizedQuery = << >>
        /\ pc = "SAFETY_CHECKED" => Blocks(safetyCheck)
        /\ Returned => stages[Len(stages)] = "BLOCKED"

C1_Witness ==
    /\ pc = "BLOCKED"
    /\ HighRiskFailure(safetyCheck)
    /\ stages = <<"START", "SAFETY_CHECKED", "BLOCKED">>

\* C2: a run whose verdict is anything but passed=false with HIGH (MEDIUM,
\* LOW, and the failed LOW verdict of a too-short query) is never BLOCKED:
\* from SAFETY_CHECKED it goes to SANITIZED with the sanitized question and
\* from there into the try block, and it returns no refusal.
C2_OnlyHighRiskFailureBlocks ==
    (Classified /\ ~HighRiskFailure(safetyCheck)) =>
        /\ ~Passed("BLOCKED")
        /\ pc = "SAFETY_CHECKED" => ~Blocks(safetyCheck)
        /\ Len(stages) >= 3 =>
               /\ stages[3] = "SANITIZED"
               /\ sanitizedQuery = sanitizeQuery(question)
        /\ Len(stages) >= 4 => stages[4] \in {"PROMPT_LOADED", "CAUGHT"}
        /\ Returned =>
               /\ stages[Len(stages)] \in {"SUCCESS", "FAILED"}
               /\ result.response.tags # <<"safety", "moderation">>

C2_Witness ==
    /\ pc = "PROMPT_LOADED"
    /\ ~safetyCheck.passed
    /\ safetyCheck.risk_level = "low"

\* C3 (as claimed): every question longer than 5000 characters is classified
\* passed=false with HIGH, and its run goes nowhere beyond the gate.
C3_OverLongIsHighRisk ==
    (Classified /\ Len(question) > 5000) =>
        /\ HighRiskFailure(safetyCheck)
        /\ \A i \in 1..Len(stages) :
               stages[i] \in {"START", "SAFETY_CHECKED", "BLOCKED"}

\* C4: every failure inside processQuery is caught there: the run goes on to
\* FAILED and returns a result with confidence 0, category "other", tags
\* ["error"], an answer that holds the error's message, and zero tokens and
\* cost; POST /completions answers it with status 200 and that result.
C4_FailuresBecomeErrorResults ==
    (error # NoError) =>
        /\ pc \in {"CAUGHT", "FAILED", "RESPONDED"}
        /\ pc = "CAUGHT" => ENABLED Catch
        /\ pc # "CAUGHT" =>
               /\ Returned
               /\ result.response.confidence = 0
               /\ result.response.category = "other"
               /\ result.response.tags = <<"error">>
               /\ \E i \in 1..Len(result.response.answer) :
                      result.response.answer[i] = error.message
               /\ result.metrics.tokens_prompt = 0
               /\ result.metrics.tokens_completion = 0
               /\ result.metrics.total_tokens = 0
               /\ result.metrics.estimated_cost_usd = 0
        /\ pc = "FAILED" => ENABLED RespondResult
        /\ pc = "RESPONDED" => http = [status |-> 200, body |-> result]

C4_Witness ==
    /\ pc = "RESPONDED"
    /\ http.status = 200
    /\ error.message = "Either OPENROUTER_API_KEY or OPENAI_API_KEY must be set"

\* C5 (as claimed): when processQuery returns, in BLOCKED, FAILED or SUCCESS,
\* exactly one call of logQueryData has been made and completed, and each of
\* the two log files holds one record.
C5_LoggedOnceAtReturn ==
    pc \in Terminal =>
        /\ Cardinality({r \in Requests : logCalls[r].state # "idle"}) = 1
        /\ \A r \in Requests : logCalls[r].state \in {"idle", "resolved"}
        /\ \A f \in LogFiles :
               files[f].kind = "array" /\ Len(files[f].records) = 1

C7_SuccessCarriesProviderAnswer ==
    pc = "SUCCESS" =>
        /\ result.response = provider.content
        /\ result.metrics.tokens_prompt = provider.usage.prompt_tokens
        /\ result.metrics.tokens_completion = provider.usage.completion_tokens
        /\ result.metrics.total_tokens =
               provider.usage.prompt_tokens + provider.usage.completion_tokens
        /\ result.metrics.model = model
        /\ result.metrics.estimated_cost_usd =
               calculateCost(model, provider.usage.prompt_tokens,
                             provider.usage.completion_tokens)

\* C8: a blocked run returns the fixed refusal, zero tokens and cost, the
\* first 100 characters of the raw question as metrics.query, and the
\* classifier's verdict as safety.
C8_BlockedReturnsRefusal ==
    Passed("BLOCKED") =>
        /\ result.response =
               [answer |-> <<"I cannot process this request due to security concerns.">>,
                confidence |-> 100,
                actions |-> <<"Please rephrase your question",
                              "Contact support if you need assistance">>,
                category |-> "other",
                tags |-> <<"safety", "moderation">>]
        /\ result.metrics.tokens_prompt = 0
        /\ result.metrics.tokens_completion = 0
        /\ result.metrics.total_tokens = 0
        /\ result.metrics.estimated_cost_usd = 0
        /\ Len(result.metrics.query) <= 100
        /\ Len(result.metrics.query) = 100 \/ result.metrics.query = question
        /\ \A i \in 1..Len(result.metrics.query) :
               result.metrics.query[i] = question[i]
        /\ result.safety = checkInputSafety(question)

C8_Witness ==
    /\ pc = "BLOCKED"
    /\ Len(question) > 100
    /\ Len(result.metrics.query) = 100

\* C9: every QueryResult processQuery returns has its three fields, a token
\* total equal to the sum of the two token counts, a confidence within
\* [0, 1] (0..100 hundredths) and a risk level among low, medium, high.
C9_ResultWellFormed ==
    Returned =>
        /\ DOMAIN result = {"response", "metrics", "safety"}
        /\ {"answer", "confidence", "actions", "category", "tags"}
               \subseteq DOMAIN result.response
        /\ result.metrics.total_tokens =
               result.metrics.tokens_prompt + result.metrics.tokens_completion
        /\ result.response.confidence >= 0
        /\ result.response.confidence <= 100
        /\ result.safety.risk_level \in {"low", "medium", "high"}

C9_Witness ==
    /\ pc = "RESPONDED"
    /\ Passed("FAILED")
    /\ http.body = result

\* The decision list of claim C10: rule n applies to the input q.
RuleApplies(n, q) ==
    CASE n = 1 -> Len(Trim(q)) < 3
      [] n = 2 -> Len(q) > 5000
      [] n = 3 -> \E p \in DOMAIN SUSPICIOUS_PATTERNS :
                      PatternTest(SUSPICIOUS_PATTERNS[p], ToLowerCase(q))
      [] n = 4 -> \E k \in DOMAIN HIGH_RISK_KEYWORDS :
                      Includes(ToLowerCase(q), HIGH_RISK_KEYWORDS[k])
      [] n = 5 -> \E k \in DOMAIN MEDIUM_RISK_KEYWORDS :
                      Includes(ToLowerCase(q), MEDIUM_RISK_KEYWORDS[k])
      [] n = 6 -> 10 * Cardinality({i \in DOMAIN q : q[i] \in SpecialChars}) > 3 * Len(q)
      [] OTHER -> TRUE

\* The first phrase of the list, in list order, that q contains.
FirstListed(keywords, q) ==
    keywords[CHOOSE k \in DOMAIN keywords :
                 /\ Includes(ToLowerCase(q), keywords[k])
                 /\ \A j \in 1..(k - 1) : ~Includes(ToLowerCase(q), keywords[j])]

RuleVerdict(n, q) ==
    CASE n = 1 -> [passed |-> FALSE, risk_level |-> "low",
                   reason |-> Reason("Query too short or empty", << >>)]
      [] n = 2 -> [passed |-> FALSE, risk_level |-> "high",
                   reason |-> Reason("Query exceeds maximum length", << >>)]
      [] n = 3 -> [passed |-> FALSE, risk_level |-> "high",
                   reason |-> Reason("Detected prompt injection pattern", << >>)]
      [] n = 4 -> [passed |-> FALSE, risk_level |-> "high",
                   reason |-> Reason("Contains high-risk keyword: ",
                                     FirstListed(HIGH_RISK_KEYWORDS, q))]
      [] n = 5 -> [passed |-> TRUE, risk_level |-> "medium",
                   reason |-> Reason("Contains medium-risk keyword: ",
                                     FirstListed(MEDIUM_RISK_KEYWORDS, q))]
      [] n = 6 -> [passed |-> TRUE, risk_level |-> "medium",
                   reason |-> Reason("High ratio of special characters detected", << >>)]
      [] OTHER -> [passed |-> TRUE, risk_level |-> "low",
                   reason |-> Reason("No safety concerns detected", << >>)]

FirstMatch(q) ==
    RuleVerdict(CHOOSE n \in 1..7 :
                    /\ RuleApplies(n, q)
                    /\ \A m \in 1..(n - 1) : ~RuleApplies(m, q),
                q)

\* C10: for every input, checkInputSafety returns the verdict of the first
\* rule, in the claimed order of the seven rules, that applies to it.
C10_FirstMatchWins ==
    call.fn = "checkInputSafety" => call.ret = FirstMatch(call.arg)

\* an input that meets rule 1 and rule 2 at once, decided by rule 1
C10_Witness ==
    /\ call.fn = "checkInputSafety"
    /\ RuleApplies(1, call.arg)
    /\ RuleApplies(2, call.arg)
    /\ call.ret.risk_level = "low"

\* The number of characters from the first to the last character of q that
\* is not whitespace.
TrimmedLength(q) ==
    IF \A i \in 1..Len(q) : q[i] \in WhiteSpace THEN 0
    ELSE (CHOOSE i \in 1..Len(q) :
              q[i] \notin WhiteSpace /\ \A j \in (i + 1)..Len(q) : q[j] \in WhiteSpace)
         - (CHOOSE i \in 1..Len(q) :
                q[i] \notin WhiteSpace /\ \A j \in 1..(i - 1) : q[j] \in WhiteSpace)
         + 1

\* C11: every input with fewer than 3 characters left after trimming, the
\* empty string included, is answered passed=false, LOW, 'Query too short or
\* empty', whatever its length and whatever else it contains.
C11_TooShortIsLowFailure ==
    (call.fn = "checkInputSafety" /\ TrimmedLength(call.arg) < 3)
        => call.ret = [passed |-> FALSE, risk_level |-> "low",
                       reason |-> Reason("Query too short or empty", << >>)]

\* a padded input of three characters or more with fewer than three between
\* its first and last non-whitespace character
C11_Witness ==
    /\ call.fn = "checkInputSafety"
    /\ Len(call.arg) >= 3
    /\ TrimmedLength(call.arg) \in 1..2
    /\ ~call.ret.passed
    /\ call.ret.risk_level = "low"

\* q contains "ignore previous instructions" in some letter case.
HasInjectionPhrase(q) == Includes(ToLowerCase(q), IgnorePrevious)

\* C12 (as claimed): every input that contains "ignore previous instructions"
\* in any letter case, of any length, is answered passed=false, HIGH, with
\* the reason that mentions the injection.
C12_InjectionPhraseIsFlagged ==
    (call.fn = "checkInputSafety" /\ HasInjectionPhrase(call.arg))
        => /\ ~call.ret.passed
           /\ call.ret.risk_level = "high"
           /\ call.ret.reason.text = "Detected prompt injection pattern"

\* C13 (as claimed): sanitizeQuery applied to its own result returns that
\* result unchanged, for every string.
C13_SanitizeIdempotent ==
    [][(call.fn = "sanitizeQuery" /\ call'.fn = "sanitizeQuery"
            /\ call'.arg = call.ret)
        => call'.ret = call.ret]_vars

\* C14: what sanitizeQuery returns has at most 5000 characters, none of them
\* in the stripped control-character ranges, and an input of more than 5000
\* characters that are neither whitespace nor control characters is cut to
\* exactly 5000.
C14_SanitizedIsBoundedAndClean ==
    call.fn = "sanitizeQuery"
        => /\ Len(call.ret) <= 5000
           /\ \A i \in 1..Len(call.ret) : call.ret[i] \notin ControlChars
           /\ (/\ Len(call.arg) > 5000
               /\ \A i \in 1..Len(call.arg) :
                      call.arg[i] \notin (WhiteSpace \cup ControlChars))
                  => Len(call.ret) = 5000

\* an input of more than 5000 letters, cut to 5000
C14_Witness ==
    /\ call.fn = "sanitizeQuery"
    /\ Len(call.arg) > 5000
    /\ \A i \in 1..Len(call.arg) : call.arg[i] \notin (WhiteSpace \cup ControlChars)
    /\ Len(call.ret) = 5000

\* The five checks of claim C15, in its order, each with its error.
FieldChecks(r) ==
    << [ok |-> r.answer.type = "string" /\ Len(r.answer.str) > 0,
        message |-> "Missing or invalid answer field"],
       [ok |-> /\ r.confidence.type = "number"
               /\ ~r.confidence.nan
               /\ r.confidence.val >= 0
               /\ r.confidence.val <= 100,
        message |-> "Confidence must be a number between 0 and 1"],
       [ok |-> r.actions.type = "array",
        message |-> "Actions must be an array"],
       [ok |-> r.category.type = "string" /\ Len(r.category.str) > 0,
        message |-> "Missing or invalid category field"],
       [ok |-> r.tags.type = "array",
        message |-> "Tags must be an array"] >>

C16_FenceDoesNotChangeTheObject ==
    call.fn = "parseJSONResponse"
        => \A payload \in Payloads :
               \A form \in TaggedForms \cup UntaggedForms \cup BareForms :
                   call.arg = Wrap(form, payload)
                       => /\ ~call.ret.threw
                          /\ call.ret = parseJSONResponse(payload)

\* the test suite's payload in an untagged fence, decoded to its fields
C16_Witness ==
    /\ call.fn = "parseJSONResponse"
    /\ call.arg = Wrap("fence", PrettyPayload)
    /\ ~call.ret.threw
    /\ call.ret.value.type = "object"
    /\ call.ret.value.fields[<<"a","n","s","w","e","r">>]
           = Str(<<"T","e","s","t"," ","a","n","s","w","e","r">>)
    /\ call.ret.value.fields[<<"c","o","n","f","i","d","e","n","c","e">>] = Num(90)
    /\ call.ret.value.fields[<<"t","a","g","s">>] = Array(<<Str(<<"t","e","s","t">>)>>)

\* C17: when the text left after stripping the fence is not valid JSON,
\* parseJSONResponse throws an error whose message is 'Failed to parse JSON
\* response: ' followed by the decode error's message, and returns no object.
C17_DecodeErrorIsWrapped ==
    (call.fn = "parseJSONResponse" /\ ~JSONParse(Cleaned(call.arg)).ok)
        => /\ call.ret.threw
           /\ call.ret.value = Undefined
           /\ call.ret.message =
                  [prefix |-> "Failed to parse JSON response: ",
                   cause |-> JSONParse(Cleaned(call.arg)).err]

\* the invalid text of the test suite: the decode stops at the i of invalid
C17_Witness ==
    /\ call.fn = "parseJSONResponse"
    /\ Len(call.arg) > 0
    /\ call.arg[1] = "{"
    /\ call.ret.threw
    /\ call.ret.message.prefix = "Failed to parse JSON response: "
    /\ call.ret.message.cause.unexpected = "i"

\* C18 (as claimed): POST /completions answers 400 without calling
\* processQuery when question is missing, not a string or empty once
\* trimmed, and when the request has no model and DEFAULT_MODEL is not set;
\* a request with a question and a model (its own or the default) is
\* answered 200 with the QueryResult.
C18_BadRequestsAreRejected ==
    (pc = "RESPONDED" /\ request # NoRequest)
        => LET q == request.question
               m == request.model
               noQuestion == q.type # "string" \/ TrimmedLength(q.str) = 0
               noModel == m.type = "undefined" /\ env.DEFAULT_MODEL.type = "undefined"
               hasModel == \/ m.type = "string" /\ TrimmedLength(m.str) > 0
                           \/ m.type = "undefined" /\ env.DEFAULT_MODEL.type = "string"
           IN  /\ (noQuestion \/ noModel) => (http.status = 400 /\ stages = << >>)
               /\ (~noQuestion /\ hasModel)
                      => (http.status = 200 /\ Returned /\ http.body = result)

\* Both calls of logQueryData have completed and neither writer of file f
\* met a failure.
BothLogged(f) ==
    \A r \in Requests :
        /\ logCalls[r].state = "resolved"
        /\ ~logCalls[r].writers[f].faulted

\* The records of the requests among those the file f holds.
NewRecords(f) ==
    {r \in Requests : \E i \in 1..Len(files[f].records) : files[f].records[i] = r}

\* C19: writes replace the whole array (last writer wins): once two
\* concurrent calls have completed without failure, a log file holds exactly
\* the array one of the two writers read and extended, so that when both
\* read the same stored array the record of the earlier writer is lost.
C19_LastWriterWins ==
    \A f \in LogFiles :
        BothLogged(f)
            => \E r \in Requests :
                   files[f] = JsonArray(logCalls[r].writers[f].all)

\* the lost update: both calls completed without failure and the metrics
\* file holds the record of one request only
C19_Witness ==
    /\ BothLogged("metrics")
    /\ Cardinality(NewRecords("metrics")) = 1
    /\ \A r \in Requests :
           Len(logCalls[r].writers["metrics"].all) = Len(files["metrics"].records)

\* The cost of the token counts at the rates of the table entry with the
\* given key (hundredths of USD per million tokens, cost in 10^-8 USD).
CostAt(key, promptTokens, completionTokens) ==
    LET entry == pricing[CHOOSE k \in DOMAIN pricing : pricing[k].key = key]
    IN  promptTokens * entry.prompt + completionTokens * entry.completion

Gpt4Turbo == <<"g","p","t","-","4","-","t","u","r","b","o">>

\* C20: calculateCost prices an identifier at the first table key, in
\* declaration order, that the identifier contains (the gpt-3.5-turbo rates
\* when it contains none); so an identifier that contains "gpt-4-turbo" is
\* priced at the gpt-4 rates, 30.0 and 60.0 per million, and no identifier
\* is priced by the gpt-4-turbo entry.
C20_FirstKeyPrices ==
    call.fn = "calculateCost"
        => LET m == call.arg.model
               p == call.arg.promptTokens
               c == call.arg.completionTokens
               contained == {k \in DOMAIN pricing : Includes(m, pricing[k].key)}
               first == CHOOSE k \in contained : \A j \in contained : k <= j
           IN  /\ contained # {} => call.ret = CostAt(pricing[first].key, p, c)
               /\ contained = {} => call.ret = CostAt(Gpt35Turbo, p, c)
               /\ Includes(m, Gpt4Turbo) => call.ret = p * 3000 + c * 6000
               /\ p + c > 0 => call.ret # CostAt(Gpt4Turbo, p, c)

\* an identifier with a prefix and a suffix around "gpt-4-turbo", priced at
\* the gpt-4 rates
C20_Witness ==
    /\ call.fn = "calculateCost"
    /\ Includes(call.arg.model, Gpt4Turbo)
    /\ call.arg.model # Gpt4Turbo
    /\ call.arg.promptTokens = 1000
    /\ call.arg.completionTokens = 500
    /\ call.ret = 6000000

\* The table entry calculateCost matches an identifier with: the first key
\* the identifier contains, the gpt-3.5-turbo entry when it contains none.
MatchedEntry(m) ==
    LET contained == {k \in DOMAIN pricing : Includes(m, pricing[k].key)}
    IN  IF contained = {}
        THEN pricing[CHOOSE k \in DOMAIN pricing : pricing[k].key = Gpt35Turbo]
        ELSE pricing[CHOOSE k \in contained : \A j \in contained : k <= j]

\* C21: calculateCost returns promptTokens / 1,000,000 times the prompt rate
\* plus completionTokens / 1,000,000 times the completion rate of the matched
\* entry: 0.06 USD (6,000,000 times 10^-8 USD) for "gpt-4" with 1000 and 500
\* tokens, and 0 for no tokens whatever the identifier.
C21_CostIsLinearInTokens ==
    call.fn = "calculateCost"
        => LET p == call.arg.promptTokens
               c == call.arg.completionTokens
               entry == MatchedEntry(call.arg.model)
           IN  /\ call.ret = p * entry.prompt + c * entry.completion
               /\ (call.arg.model = Gpt4 /\ p = 1000 /\ c = 500)
                      => call.ret = 6000000
               /\ (p = 0 /\ c = 0) => call.ret = 0

\* the call of the test suite: "gpt-4", 1000 and 500 tokens, 0.06 USD
C21_Witness ==
    /\ call.fn = "calculateCost"
    /\ call.arg = [model |-> Gpt4, promptTokens |-> 1000, completionTokens |-> 500]
    /\ call.ret = 1000 * 3000 + 500 * 6000

\* The identifier m is a table key followed by more characters.
Extends(m, key) == HasAt(m, key, 1) /\ Len(m) > Len(key)

\* C22 (as claimed): an identifier that contains no key of the price table
\* is priced as "gpt-3.5-turbo" (0.5 and 1.5 per million), and an identifier
\* that extends a key is priced by that key.
C22_ExtendedKeyPrices ==
    call.fn = "calculateCost"
        => LET m == call.arg.model
               p == call.arg.promptTokens
               c == call.arg.completionTokens
           IN  /\ (\A k \in DOMAIN pricing : ~Includes(m, pricing[k].key))
                      => call.ret = p * 50 + c * 150
               /\ \A k \in DOMAIN pricing :
                      Extends(m, pricing[k].key)
                          => call.ret = CostAt(pricing[k].key, p, c)

\* C22 (amended): an identifier that contains no key of the price table is
\* priced as "gpt-3.5-turbo" (0.5 and 1.5 per million), and an identifier
\* that extends a key is priced by that key unless it contains a key declared
\* earlier, which then prices it ("gpt-4-turbo-preview" is priced as "gpt-4").
C22_ExtendedKeyPricesUnlessEarlierKey ==
    call.fn = "calculateCost"
        => LET m == call.arg.model
               p == call.arg.promptTokens
               c == call.arg.completionTokens
           IN  /\ (\A k \in DOMAIN pricing : ~Includes(m, pricing[k].key))
                      => call.ret = p * 50 + c * 150
               /\ \A k \in DOMAIN pricing :
                      (/\ Extends(m, pricing[k].key)
                       /\ \A j \in 1..(k - 1) : ~Includes(m, pricing[j].key))
                          => call.ret = CostAt(pricing[k].key, p, c)
               /\ \A k \in DOMAIN pricing :
                      (/\ Extends(m, pricing[k].key)
                       /\ \E j \in 1..(k - 1) : Includes(m, pricing[j].key))
                          => call.ret =
                                 CostAt(pricing[CHOOSE j \in 1..(k - 1) :
                                            /\ Includes(m, pricing[j].key)
                                            /\ \A i \in 1..(j - 1) :
                                                   ~Includes(m, pricing[i].key)].key,
                                        p, c)

\* an identifier that contains no key, priced at the default rates
C22_Witness ==
    /\ call.fn = "calculateCost"
    /\ \A k \in DOMAIN pricing : ~Includes(call.arg.model, pricing[k].key)
    /\ Len(call.arg.model) > 0
    /\ call.arg.promptTokens = 1000
    /\ call.arg.completionTokens = 500
    /\ call.ret = 125000

\* short is text cut to at most n characters.
IsPrefixOfAtMost(short, text, n) ==
    /\ Len(short) = (IF Len(text) < n THEN Len(text) ELSE n)
    /\ \A i \in 1..Len(short) : short[i] = text[i]

\* C23 (as claimed): the query of the metrics of a returned QueryResult is
\* the raw question cut to 100 characters in BLOCKED, and the sanitized
\* query cut to 200 characters in FAILED and in SUCCESS.
C23_MetricsQueryIsTruncated ==
    Returned =>
        /\ Passed("BLOCKED")
               => IsPrefixOfAtMost(result.metrics.query, question, 100)
        /\ (Passed("FAILED") \/ Passed("SUCCESS"))
               => IsPrefixOfAtMost(result.metrics.query, sanitizedQuery, 200)

\* The categories the prompt template allows.
Categories ==
    {"billing", "technical", "account", "product", "shipping", "refund", "other"}

\* C24 (as claimed): the response of every QueryResult processQuery returns,
\* be it the refusal, the error fallback or the answer of a successful run,
\* has one of the seven categories.
C24_CategoryIsEnumerated ==
    Returned => result.response.category \in Categories

\* The number of characters of q that are in the special set.
SpecialCount(q) == Cardinality({i \in 1..Len(q) : q[i] \in SpecialChars})

\* q has an acceptable length, matches no injection pattern and contains no
\* high-risk or medium-risk phrase.
ReachesRatioTest(q) == \A n \in 1..5 : ~RuleApplies(n, q)

\* C25: for an input that reaches the ratio test, the verdict is passed=true
\* MEDIUM 'High ratio of special characters detected' exactly when the
\* special characters are strictly more than 0.3 of the raw length, and
\* passed=true LOW 'No safety concerns detected' otherwise.
C25_RatioThresholdIsStrict ==
    (call.fn = "checkInputSafety" /\ ReachesRatioTest(call.arg))
        => IF 10 * SpecialCount(call.arg) > 3 * Len(call.arg)
           THEN call.ret = [passed |-> TRUE, risk_level |-> "medium",
                            reason |-> Reason("High ratio of special characters detected",
                                              << >>)]
           ELSE call.ret = [passed |-> TRUE, risk_level |-> "low",
                            reason |-> Reason("No safety concerns detected", << >>)]

\* an input whose special characters are exactly 0.3 of its length
C25_Witness ==
    /\ call.fn = "checkInputSafety"
    /\ ReachesRatioTest(call.arg)
    /\ 10 * SpecialCount(call.arg) = 3 * Len(call.arg)
    /\ call.ret.passed
    /\ call.ret.risk_level = "low"

\* C26 (as claimed): once processQuery has sanitized a question that got
\* through the gate, the sanitized text it goes on with would itself get
\* through the gate: checkInputSafety does not fail it with HIGH.
C26_SanitizedTextPassesGate ==
    Passed("SANITIZED")
        => LET again == [passed |-> checkInputSafety(sanitizedQuery).passed,
                         risk_level |-> checkInputSafety(sanitizedQuery).risk_level]
           IN  ~(~again.passed /\ again.risk_level = "high")

\* C27 (as claimed): the safety field of every returned QueryResult is the
\* verdict checkInputSafety gave for the question at the start of the run,
\* in BLOCKED, in FAILED and in SUCCESS alike.
C27_SafetyFieldIsTheVerdict ==
    Returned
        => /\ result.safety.passed = safetyCheck.passed
           /\ result.safety.risk_level = safetyCheck.risk_level
           /\ "reason" \in DOMAIN result.safety
           /\ result.safety = safetyCheck

\* C28 (as claimed): with one call at a time, whenever a writer writes a log
\* file that held an array, the file holds the same records in the same
\* order followed by exactly one new record, whatever the outcome of the
\* writer's read step.
C28_LogIsAppendOnly ==
    [][\A f \in LogFiles :
           (/\ files[f].kind = "array"
            /\ files'[f] # files[f]
            /\ files'[f].kind = "array")
               => /\ Len(files'[f].records) = Len(files[f].records) + 1
                  /\ SubSeq(files'[f].records, 1, Len(files[f].records))
                         = files[f].records
                  /\ files'[f].records[Len(files'[f].records)] \in Requests]_vars

\* The reasons checkInputSafety gives.
ReasonTexts ==
    {"Query too short or empty", "Query exceeds maximum length",
     "Detected prompt injection pattern", "Contains high-risk keyword: ",
     "Contains medium-risk keyword: ", "High ratio of special characters detected",
     "No safety concerns detected"}

\* C29: for every string checkInputSafety returns a verdict (it does not
\* throw), and the verdict is consistent: HIGH goes with passed=false, MEDIUM
\* with passed=true, passed=false with LOW is the too-short verdict alone,
\* and a reason is always given.
C29_VerdictIsConsistent ==
    call.fn = "checkInputSafety"
        => /\ DOMAIN call.ret = {"passed", "risk_level", "reason"}
           /\ call.ret.passed \in BOOLEAN
           /\ call.ret.risk_level \in {"low", "medium", "high"}
           /\ call.ret.risk_level = "high" => ~call.ret.passed
           /\ call.ret.risk_level = "medium" => call.ret.passed
           /\ (~call.ret.passed /\ call.ret.risk_level = "low")
                  => /\ TrimmedLength(call.arg) < 3
                     /\ call.ret.reason.text = "Query too short or empty"
           /\ call.ret.reason.text \in ReasonTexts
           /\ (call.ret.reason.keyword # << >>)
                  <=> call.ret.reason.text \in {"Contains high-risk keyword: ",
                                                "Contains medium-risk keyword: "}

\* a HIGH verdict for a high-risk phrase, failed and with its reason
C29_Witness ==
    /\ call.fn = "checkInputSafety"
    /\ call.ret.risk_level = "high"
    /\ ~call.ret.passed
    /\ call.ret.reason.text = "Contains high-risk keyword: "
    /\ call.ret.reason.keyword # << >>

\* The high-risk phrases for which some direct input gets the verdict of the
\* phrase itself, 'Contains high-risk keyword: <phrase>'.
PhrasesWithOwnVerdict ==
    { k \in DOMAIN HIGH_RISK_KEYWORDS :
        \E q \in DirectInputs :
            checkInputSafety(q).reason =
                Reason("Contains high-risk keyword: ", HIGH_RISK_KEYWORDS[k]) }

\* C30 (as claimed): every phrase of HIGH_RISK_KEYWORDS can produce its own
\* verdict: for each of them there is an input, the one of the call just
\* made or another one, the phrase alone or inside other text, for which
\* checkInputSafety returns the reason
\* 'Contains high-risk keyword: <that phrase>'.
C30_EveryPhraseHasItsVerdict ==
    call.fn = "checkInputSafety"
        => \A k \in DOMAIN HIGH_RISK_KEYWORDS :
               \/ call.ret.reason =
                      Reason("Contains high-risk keyword: ", HIGH_RISK_KEYWORDS[k])
               \/ k \in PhrasesWithOwnVerdict
====
